---- MODULE Spec2Model ----
(***************************************************************************)
(* Reservation lifecycle engine of the hotel back office: the Reservation  *)
(* model (clean / save / delete and its room and ledger side effects) and  *)
(* the admin requests that drive it (add form, change form, batch actions, *)
(* guarded deletes, manual room edits).                                    *)
(*                                                                         *)
(* The persistent store is the record World = [res, nextId, rooms,         *)
(* income, expense]; model methods are operators from a world and an       *)
(* in-memory object to a new world and the mutated object.                 *)
(***************************************************************************)
EXTENDS Integers, Sequences, FiniteSets, TLC

\* ---------------------------------------------------------------- bounds
MaxRes == 2        \* reservation primary keys handed out: 1..MaxRes
MaxDay == 3        \* calendar days that forms can name: 1..MaxDay
MaxLedger == 2     \* cap on the rows of each ledger table

\* ------------------------------------------------------ program constants
MinGuests == 1
MaxGuests == 100

STATUS == {"Booked", "CheckedIn", "CheckedOut", "Refunded"}
ROOM_STATUS == {"Available", "Booked", "Occupied", "Maintenance"}
ActiveStatus == {"Booked", "CheckedIn"}

\* ------------------------------------------------------------ input sets
CustIds == {1}
Days == 1..MaxDay
GuestInputs == {0, 1, 2, MaxGuests + 1}

VARIABLES res, nextId, rooms, customers, income, expense, today, mem, last

vars == <<res, nextId, rooms, customers, income, expense, today, mem, last>>
db == <<res, nextId, rooms, customers, income, expense>>

World == [res |-> res, nextId |-> nextId, rooms |-> rooms, customers |-> customers,
          income |-> income, expense |-> expense]

SetWorld(w) ==
    /\ res' = w.res
    /\ nextId' = w.nextId
    /\ rooms' = w.rooms
    /\ customers' = w.customers
    /\ income' = w.income
    /\ expense' = w.expense

\* A room as the Room directory holds it after it was added: nightly price,
\* capacity, status Available.
NewRoom(price, capacity) ==
    [status |-> "Available", price |-> price, capacity |-> capacity]

\* A customer as the Customer directory holds it after it was added.
NewCustomer == [name |-> "a"]

NoObj == [pk |-> 0]

\* An unsaved Reservation instance built from the submitted fields; the
\* remaining fields take the model's defaults.
NewObj(f) ==
    [pk |-> 0, customer |-> f.customer, room |-> f.room, ci |-> f.ci, co |-> f.co,
     guests |-> f.guests, status |-> f.status,
     paid |-> 0, refund |-> 0, incRec |-> FALSE, refRec |-> FALSE]

\* The instance with attributes assigned by the caller.
Assigned(o, f) ==
    [o EXCEPT !.room = f.room, !.ci = f.ci, !.co = f.co,
              !.guests = f.guests, !.status = f.status]

\* Reservation.objects.get(pk=id): an instance holding the stored row.
Load(w, id) == [pk |-> id] @@ w.res[id]

\* The row written by Model.save(): every concrete field of the instance.
RowOf(o) ==
    [customer |-> o.customer, room |-> o.room, ci |-> o.ci, co |-> o.co,
     guests |-> o.guests, status |-> o.status, paid |-> o.paid,
     refund |-> o.refund, incRec |-> o.incRec, refRec |-> o.refRec]

Put(f, k, v) == [x \in (DOMAIN f) \cup {k} |-> IF x = k THEN v ELSE f[x]]
Drop(f, k) == [x \in (DOMAIN f) \ {k} |-> f[x]]

\* ------------------------------------------------------ Reservation.clean

\* A narrower detector: only a reservation covering the whole requested
\* range conflicts.
DatesCover(row, ci, co) == row.ci <= ci /\ row.co >= co

\* Q(check_in_date__lt=self.check_out_date) & Q(check_out_date__gt=self.check_in_date)
DatesOverlap(row, ci, co) == row.ci < co /\ row.co > ci

\* A conflict queryset that counts finished reservations too.
ConflictSetAnyStatus(w, o) ==
    {i \in DOMAIN w.res :
        /\ w.res[i].room = o.room
        /\ DatesOverlap(w.res[i], o.ci, o.co)
        /\ (o.pk # 0 => i # o.pk)}

\* A conflict queryset that does not exclude the instance's own row.
ConflictSetWithSelf(w, o) ==
    {i \in DOMAIN w.res :
        /\ w.res[i].room = o.room
        /\ w.res[i].status \in ActiveStatus
        /\ DatesOverlap(w.res[i], o.ci, o.co)}

\* The conflict queryset of clean(): the other active reservations of the
\* room whose dates overlap the instance's.
ConflictSet(w, o) ==
    {i \in DOMAIN w.res :
        /\ w.res[i].room = o.room
        /\ w.res[i].status \in ActiveStatus
        /\ DatesOverlap(w.res[i], o.ci, o.co)
        /\ (o.pk # 0 => i # o.pk)}

\* A clean() that keeps the paid_amount the instance came with.
SuppliedAmount(w, o) == o.paid

\* days * room.price, assigned to paid_amount by clean().
PaidAmount(w, o) == (o.co - o.ci) * w.rooms[o.room].price

\* A clean() without the date-order rule.
CleanAnyDates(w, o) ==
    IF o.guests # 0 /\ o.guests > w.rooms[o.room].capacity
        THEN [err |-> "capacity", o |-> [o EXCEPT !.paid = PaidAmount(w, o)]]
    ELSE IF ConflictSet(w, o) # {}
        THEN [err |-> "conflict", o |-> [o EXCEPT !.paid = PaidAmount(w, o)]]
    ELSE [err |-> "ok", o |-> [o EXCEPT !.paid = PaidAmount(w, o)]]

\* A clean() without the capacity rule.
CleanAnyGuests(w, o) ==
    IF o.ci >= o.co THEN [err |-> "dates", o |-> o]
    ELSE IF ConflictSet(w, o) # {}
        THEN [err |-> "conflict", o |-> [o EXCEPT !.paid = PaidAmount(w, o)]]
    ELSE [err |-> "ok", o |-> [o EXCEPT !.paid = PaidAmount(w, o)]]

\* Reservation.clean(): date order, paid_amount recomputation, capacity,
\* conflict; the first failing check raises. Returns the error and the
\* instance as clean() left it.
ModelClean(w, o) ==
    IF o.ci >= o.co THEN [err |-> "dates", o |-> o]
    ELSE IF o.guests # 0 /\ o.guests > w.rooms[o.room].capacity
        THEN [err |-> "capacity", o |-> [o EXCEPT !.paid = PaidAmount(w, o)]]
    ELSE IF ConflictSet(w, o) # {}
        THEN [err |-> "conflict", o |-> [o EXCEPT !.paid = PaidAmount(w, o)]]
    ELSE [err |-> "ok", o |-> [o EXCEPT !.paid = PaidAmount(w, o)]]

\* Field validators run by full_clean(): number_of_guests in 1..100 and
\* status among the model's choices.
FieldErrors(o) ==
    IF o.guests < MinGuests \/ o.guests > MaxGuests THEN "guests"
    ELSE IF o.status \notin STATUS THEN "status_choice"
    ELSE "ok"

FirstError(e, c) == IF e # "ok" THEN [err |-> e, o |-> c.o] ELSE c

\* Model.full_clean(): clean_fields() and clean() both run; the instance
\* keeps what clean() assigned even when a validator failed.
FullClean(w, o) == FirstError(FieldErrors(o), ModelClean(w, o))

\* ----------------------------------------------- room-status synchroniser

\* A computation that frees every room without active reservation.
AvailableWhenIdle(w, room, cur) ==
    IF \E i \in DOMAIN w.res : w.res[i].room = room /\ w.res[i].status = "CheckedIn"
        THEN "Occupied"
    ELSE IF \E i \in DOMAIN w.res : w.res[i].room = room /\ w.res[i].status = "Booked"
        THEN "Booked"
    ELSE "Available"

\* A computation that does not tell CheckedIn from Booked.
BookedWhenActive(w, room, cur) ==
    IF \E i \in DOMAIN w.res : w.res[i].room = room /\ w.res[i].status \in ActiveStatus
        THEN "Booked"
    ELSE IF cur # "Maintenance" THEN "Available" ELSE "Maintenance"

\* The status computed for a room from its active reservations; cur is the
\* status the room object holds.
DerivedStatus(w, room, cur) ==
    IF \E i \in DOMAIN w.res : w.res[i].room = room /\ w.res[i].status = "CheckedIn"
        THEN "Occupied"
    ELSE IF \E i \in DOMAIN w.res : w.res[i].room = room /\ w.res[i].status = "Booked"
        THEN "Booked"
    ELSE IF cur # "Maintenance" THEN "Available" ELSE "Maintenance"

\* room.status = new_status; room.save(), only when the status differs.
WriteRoomStatus(w, room, new) ==
    IF w.rooms[room].status # new
    THEN [w EXCEPT !.rooms[room].status = new]
    ELSE w

\* Reservation._update_room_status()
UpdateRoomStatus(w, room) ==
    WriteRoomStatus(w, room, DerivedStatus(w, room, w.rooms[room].status))

\* ------------------------------------------------------------ the ledger

\* description__contains=f'预订号:{id}': the entry's description starts with
\* '预订号:<rid> | ', so it contains '预订号:<id>' exactly when the decimal
\* digits of id are a prefix of those of rid.
RECURSIVE DecPrefix(_, _)
DecPrefix(id, rid) ==
    IF id = rid THEN TRUE
    ELSE IF rid < 10 THEN FALSE
    ELSE DecPrefix(id, rid \div 10)

IncomeHits(w, id) == {k \in 1..Len(w.income) : DecPrefix(id, w.income[k].rid)}

Least(S) == IF S = {} THEN 0 ELSE CHOOSE k \in S : \A j \in S : k <= j

\* Income.objects.filter(source='Room', description__contains=...).first():
\* the position of the first matching entry, 0 when there is none.
FirstIncome(w, id) == Least(IncomeHits(w, id))

AnnotateAt(w, k, note) ==
    IF k = 0 THEN w ELSE [w EXCEPT !.income[k].notes = Append(@, note)]

\* income.description += note; income.save(), on the first matching entry.
Annotate(w, id, note) == AnnotateAt(w, FirstIncome(w, id), note)

\* Income.objects.create(...) of _create_income_record().
AddIncome(w, o) ==
    [w EXCEPT !.income = Append(@, [rid |-> o.pk, amount |-> o.paid, notes |-> <<>>])]

\* Reservation.objects.filter(pk=self.pk).update(income_recorded=True)
FlagIncome(w, id) ==
    IF id \in DOMAIN w.res THEN [w EXCEPT !.res[id].incRec = TRUE] ELSE w

\* Reservation._create_income_record(): one Income row, then the stored
\* flag is set by update(); the instance's own flag is not assigned.
CreateIncomeRecord(w, o) == FlagIncome(AddIncome(w, o), o.pk)

\* Expense.objects.create(...) of _process_refund().
AddExpense(w, o) ==
    [w EXCEPT !.expense =
        Append(@, [rid |-> o.pk, amount |-> o.refund, category |-> "Other"])]

\* A refund that leaves the income entry as it is.
LeaveIncome(w, o) == w

\* The refund mark on the income entry, when the instance says income was
\* recorded.
RefundAnnotate(w, o) ==
    IF o.incRec
    THEN Annotate(w, o.pk, [tag |-> "refunded", amount |-> o.refund])
    ELSE w

\* Reservation.objects.filter(pk=self.pk).update(refund_recorded=True,
\* refund_amount=self.refund_amount)
FlagRefund(w, o) ==
    IF o.pk \in DOMAIN w.res
    THEN [w EXCEPT !.res[o.pk].refRec = TRUE, !.res[o.pk].refund = o.refund]
    ELSE w

\* The body of _process_refund() past its guard, on the instance whose
\* refund_amount was assigned.
RefundWrites(w, o) ==
    [w |-> FlagRefund(RefundAnnotate(AddExpense(w, o), o), o), o |-> o]

\* Reservation._process_refund(): returns the world and the instance
\* (refund_amount is assigned on the instance, refund_recorded is not).
ProcessRefund(w, o) ==
    IF o.refRec \/ o.paid <= 0 THEN [w |-> w, o |-> o]
    ELSE RefundWrites(w, [o EXCEPT !.refund = o.paid])

\* ------------------------------------------------------- Reservation.save

Rejected(w, o, e) == [ok |-> FALSE, err |-> e, w |-> w, o |-> o]
Accepted(r) == [ok |-> TRUE, err |-> "ok", w |-> r.w, o |-> r.o]

\* A save() that stores the status it was given.
StatusAsGiven(o, day) == o

\* A save() that checks out every CheckedIn instance, whatever the date.
CheckoutOnSave(o, day) ==
    IF o.status = "CheckedIn" THEN [o EXCEPT !.status = "CheckedOut"] ELSE o

\* The auto check-out of save(): a CheckedIn instance whose check-out date
\* is before today becomes CheckedOut.
AutoCheckout(o, day) ==
    IF o.co < day /\ o.status = "CheckedIn"
    THEN [o EXCEPT !.status = "CheckedOut"]
    ELSE o

\* is_new and old_status of save(): "New" for an instance without primary
\* key, "None" when the row is gone, else the stored status.
OldStatus(w, o) ==
    IF o.pk = 0 THEN "New"
    ELSE IF o.pk \in DOMAIN w.res THEN w.res[o.pk].status
    ELSE "None"

\* super().save(): an INSERT under the next primary key for a new instance,
\* else an UPDATE of the whole row (an INSERT when the row is gone).
WriteRow(w, o) ==
    IF o.pk = 0
    THEN [w EXCEPT !.res = Put(@, w.nextId, RowOf(o)), !.nextId = @ + 1]
    ELSE [w EXCEPT !.res = Put(@, o.pk, RowOf(o))]

\* The instance after super().save(): it holds its primary key.
WithPk(w, o) == IF o.pk = 0 THEN [o EXCEPT !.pk = w.nextId] ELSE o

\* if self.paid_amount > 0 and not self.income_recorded
SaveIncome(w, o) ==
    IF o.paid > 0 /\ ~o.incRec THEN CreateIncomeRecord(w, o) ELSE w

\* if not is_new and old_status != 'Refunded' and self.status == 'Refunded'
SaveRefund(w, o, old) ==
    IF old \notin {"New", "Refunded"} /\ o.status = "Refunded"
    THEN ProcessRefund(w, o)
    ELSE [w |-> w, o |-> o]

\* save() after the row write: room status, income, refund.
AfterWrite(w, o, old) ==
    Accepted(SaveRefund(SaveIncome(UpdateRoomStatus(w, o.room), o), o, old))

\* save() on the validated instance.
SaveRow(w, o) == AfterWrite(WriteRow(w, o), WithPk(w, o), OldStatus(w, o))

SaveCleaned(w, fc, day) ==
    IF fc.err # "ok" THEN Rejected(w, fc.o, fc.err)
    ELSE SaveRow(w, AutoCheckout(fc.o, day))

\* A save() that writes the row first and validates afterwards.
WriteThenValidate(w, o, day) ==
    IF FullClean(w, o).err # "ok"
    THEN Rejected(WriteRow(w, o), FullClean(w, o).o, FullClean(w, o).err)
    ELSE SaveRow(w, AutoCheckout(FullClean(w, o).o, day))

\* A save() that applies the auto check-out first and validates afterwards.
CheckoutThenValidate(w, o, day) == SaveCleaned(w, FullClean(w, AutoCheckout(o, day)), day)

\* Reservation.save(): full_clean, auto check-out, row write, room status,
\* income, refund. Returns ok/err, the new world and the instance.
Save(w, o, day) == SaveCleaned(w, FullClean(w, o), day)

\* ----------------------------------------------------- Reservation.delete

\* The room-status recomputation at the end of delete(), on the room
\* reference captured before the row was removed.
DeleteRoomStatus(w, room) ==
    WriteRoomStatus(w, room, DerivedStatus(w, room, w.rooms[room].status))

\* A delete() that refunds every finished reservation, CheckedOut included.
DeleteRefundFinished(w, o) ==
    IF o.paid > 0 /\ ~o.refRec /\ o.status \in {"CheckedOut", "Refunded"}
    THEN ProcessRefund(w, o)
    ELSE [w |-> w, o |-> o]

\* if self.paid_amount > 0 and not self.refund_recorded and self.status == 'Refunded'
DeleteRefund(w, o) ==
    IF o.paid > 0 /\ ~o.refRec /\ o.status = "Refunded"
    THEN ProcessRefund(w, o)
    ELSE [w |-> w, o |-> o]

\* A delete() that takes the reservation's income entries with it.
ForgetIncome(w, o) ==
    [w EXCEPT !.income = SelectSeq(@, LAMBDA e : e.rid # o.pk)]

\* The deleted mark on the income entry, when the instance says income was
\* recorded.
MarkDeleted(w, o) ==
    IF o.incRec THEN Annotate(w, o.pk, [tag |-> "deleted", amount |-> 0]) ELSE w

\* super().delete()
RemoveRow(w, id) == [w EXCEPT !.res = Drop(@, id)]

DeleteWrites(rf) ==
    [w |-> DeleteRoomStatus(RemoveRow(MarkDeleted(rf.w, rf.o), rf.o.pk), rf.o.room),
     o |-> [rf.o EXCEPT !.pk = 0]]

\* Reservation.delete(): refund if due, mark the income entry, remove the
\* row, recompute the room. The deleted instance loses its primary key.
Delete(w, o) == DeleteWrites(DeleteRefund(w, o))

\* ------------------------------------------------- ReservationAdminForm

\* What a submitted reservation form carries.
Forms ==
    [customer : DOMAIN customers, room : DOMAIN rooms, ci : Days, co : Days,
     guests : GuestInputs, status : STATUS]

\* A room queryset that offers every room.
AllRooms(w) == DOMAIN w.rooms

\* __init__ of the add form: the room queryset holds the Available rooms.
AddRoomChoices(w) == {r \in DOMAIN w.rooms : w.rooms[r].status = "Available"}

\* An add form that offers every status.
EveryStatus == STATUS

\* __init__ of the add form: the status choices of a new reservation.
AddStatusChoices == {"Booked", "CheckedIn"}

\* __init__ of the change form: the status choices by the stored status.
ChangeStatusChoices(st) ==
    CASE st = "CheckedOut" -> {"CheckedOut"}
      [] st = "Refunded" -> {"Refunded"}
      [] st = "CheckedIn" -> {"CheckedIn", "CheckedOut"}
      [] OTHER -> {"Booked", "CheckedIn", "Refunded"}

\* __init__ of the change form: the status field is disabled for the
\* terminal statuses, so the stored value is used whatever was submitted.
StatusDisabled(st) == st \in {"CheckedOut", "Refunded"}

\* A cleaned status that is whatever was submitted.
SubmittedStatus(original, f) == f.status

\* The status of cleaned_data on the change form: the stored one when the
\* field is disabled, the submitted one when it is a valid choice, "None"
\* when field validation refused it.
CleanedStatus(original, f) ==
    IF StatusDisabled(original.status) THEN original.status
    ELSE IF f.status \in ChangeStatusChoices(original.status) THEN f.status
    ELSE "None"

\* ReservationAdminForm.clean(): the rule against refunding a CheckedIn
\* reservation, on the status that passed field validation.
FormClean(original, cleanedStatus) ==
    IF original.status = "CheckedIn" /\ cleanedStatus = "Refunded"
    THEN "checkedin_refund"
    ELSE "ok"

AddChecked(w, f, fc, day) ==
    IF f.room \notin AddRoomChoices(w) THEN Rejected(w, NewObj(f), "room_choice")
    ELSE IF f.status \notin AddStatusChoices THEN Rejected(w, NewObj(f), "status_choice")
    ELSE IF fc.err # "ok" THEN Rejected(w, fc.o, fc.err)
    ELSE Save(w, fc.o, day)

\* The add view: form validation (fields, then the model's full_clean on
\* the constructed instance), then save_model -> Reservation.save().
AdminAddResult(w, f, day) == AddChecked(w, f, FullClean(w, NewObj(f)), day)

\* A change form whose customer and room fields are taken from the
\* submission.
ChangedObjUnlocked(original, f, st) ==
    [original EXCEPT !.customer = f.customer, !.room = f.room,
                     !.ci = f.ci, !.co = f.co, !.guests = f.guests,
                     !.status = IF st = "None" THEN @ ELSE st]

\* construct_instance() on the change form: customer and room are disabled
\* for every stored status, dates and guest count are taken from the
\* submission, the status from cleaned_data.
ChangedObj(original, f, st) ==
    [original EXCEPT !.ci = f.ci, !.co = f.co, !.guests = f.guests,
                     !.status = IF st = "None" THEN @ ELSE st]

ChangeChecked(w, original, st, fc, day) ==
    IF st = "None" THEN Rejected(w, fc.o, "status_choice")
    ELSE IF FormClean(original, st) # "ok" THEN Rejected(w, fc.o, FormClean(original, st))
    ELSE IF fc.err # "ok" THEN Rejected(w, fc.o, fc.err)
    ELSE Save(w, fc.o, day)

ChangeCleaned(w, original, f, st, day) ==
    ChangeChecked(w, original, st, FullClean(w, ChangedObj(original, f, st)), day)

\* A change request that assigns the submitted fields and saves, with no
\* form in between.
ChangeWithoutForm(w, id, f, day) == Save(w, Assigned(Load(w, id), f), day)

\* The change view on reservation id.
AdminChangeResult(w, id, f, day) ==
    ChangeCleaned(w, Load(w, id), f, CleanedStatus(Load(w, id), f), day)

\* ------------------------------------------------ ReservationAdmin actions

Latest(w, S) ==
    CHOOSE i \in S : \A j \in S :
        \/ w.res[i].ci > w.res[j].ci
        \/ (w.res[i].ci = w.res[j].ci /\ i <= j)

\* The queryset of a batch action in the model's ordering (-check_in_date).
RECURSIVE OrderBy(_, _)
OrderBy(w, S) ==
    IF S = {} THEN <<>>
    ELSE <<Latest(w, S)>> \o OrderBy(w, S \ {Latest(w, S)})

\* The loop of a batch transition: every queryset item whose loaded status
\* is `from` is set to `to` and saved; an exception from save() ends the
\* request with the earlier items already written. w0 is the world in
\* which the queryset was evaluated, s the result of the item before.
RECURSIVE TransitionLoop(_, _, _, _, _, _)
TransitionLoop(w0, s, q, from, to, day) ==
    IF ~s.ok THEN s
    ELSE IF q = <<>> THEN [ok |-> TRUE, err |-> "ok", w |-> s.w]
    ELSE IF w0.res[Head(q)].status = from
        THEN TransitionLoop(w0,
                 Save(s.w, [Load(w0, Head(q)) EXCEPT !.status = to], day),
                 Tail(q), from, to, day)
    ELSE TransitionLoop(w0, s, Tail(q), from, to, day)

Started(w) == [ok |-> TRUE, err |-> "ok", w |-> w]

\* A loop that sets every item of the queryset to `to`, whatever its status.
RECURSIVE ForceLoop(_, _, _, _, _)
ForceLoop(w0, s, q, to, day) ==
    IF ~s.ok THEN s
    ELSE IF q = <<>> THEN [ok |-> TRUE, err |-> "ok", w |-> s.w]
    ELSE ForceLoop(w0, Save(s.w, [Load(w0, Head(q)) EXCEPT !.status = to], day),
                   Tail(q), to, day)

\* A batch check-in that checks in every selected reservation.
CheckinEverySelected(w, sel, day) ==
    ForceLoop(w, Started(w), OrderBy(w, sel), "CheckedIn", day)

\* ReservationAdmin.make_checkin
MakeCheckin(w, sel, day) ==
    TransitionLoop(w, Started(w), OrderBy(w, sel), "Booked", "CheckedIn", day)

\* ReservationAdmin.make_checkout
MakeCheckout(w, sel, day) ==
    TransitionLoop(w, Started(w), OrderBy(w, sel), "CheckedIn", "CheckedOut", day)

\* A batch cancel that refunds the Booked reservations of the selection
\* and reports the CheckedIn ones afterwards.
CancelThenReport(w, sel, day) ==
    [ok |-> ~(\E i \in sel : w.res[i].status = "CheckedIn"),
     err |-> IF \E i \in sel : w.res[i].status = "CheckedIn"
             THEN "checkedin_selected" ELSE "ok",
     w |-> TransitionLoop(w, Started(w), OrderBy(w, sel), "Booked", "Refunded", day).w]

\* ReservationAdmin.cancel_reservations: refused as a whole when a
\* CheckedIn reservation is selected, else every Booked one is refunded.
CancelReservations(w, sel, day) ==
    IF \E i \in sel : w.res[i].status = "CheckedIn"
    THEN [ok |-> FALSE, err |-> "checkedin_selected", w |-> w]
    ELSE TransitionLoop(w, Started(w), OrderBy(w, sel), "Booked", "Refunded", day)

RECURSIVE DeleteLoop(_, _, _)
DeleteLoop(w0, w, q) ==
    IF q = <<>> THEN w
    ELSE DeleteLoop(w0, Delete(w, Load(w0, Head(q))).w, Tail(q))

\* ReservationAdmin.safe_delete_selected: refused as a whole when an active
\* reservation is selected.
SafeDeleteSelected(w, sel) ==
    IF \E i \in sel : w.res[i].status \in ActiveStatus
    THEN [ok |-> FALSE, err |-> "active_selected", w |-> w]
    ELSE [ok |-> TRUE, err |-> "ok", w |-> DeleteLoop(w, w, OrderBy(w, sel))]

\* A delete view without the check on the status.
DeleteUnguarded(w, id) ==
    [ok |-> TRUE, err |-> "ok", w |-> Delete(w, Load(w, id)).w]

\* ReservationAdmin.delete_model
DeleteModel(w, id) ==
    IF w.res[id].status \in ActiveStatus
    THEN [ok |-> FALSE, err |-> "active", w |-> w]
    ELSE [ok |-> TRUE, err |-> "ok", w |-> Delete(w, Load(w, id)).w]

\* ------------------------------------------------------------- RoomAdmin

\* RoomAdminForm.clean() and RoomAdmin.save_model(): the status field of a
\* room is edited by hand unless the room has an active reservation.
RoomChange(w, room, st) ==
    IF \E i \in DOMAIN w.res : w.res[i].room = room /\ w.res[i].status \in ActiveStatus
    THEN [ok |-> FALSE, err |-> "room_active", w |-> w]
    ELSE [ok |-> TRUE, err |-> "ok", w |-> [w EXCEPT !.rooms[room].status = st]]

\* The reservations that reference a room, a customer.
OfRoom(w, room) == {i \in DOMAIN w.res : w.res[i].room = room}
OfCustomer(w, c) == {i \in DOMAIN w.res : w.res[i].customer = c}

\* Reservation.objects.filter(..., status__in=['Booked', 'CheckedIn']).exists()
HasActive(w, S) == \E i \in S : w.res[i].status \in ActiveStatus

\* What a submitted room form carries.
PriceInputs == {0, 150}
CapacityInputs == {0, 2}
RoomStatusInputs == {"Available"}
RoomForms == [price : PriceInputs, capacity : CapacityInputs, status : RoomStatusInputs]

\* The room row written from the form.
RoomRow(g) == [status |-> g.status, price |-> g.price, capacity |-> g.capacity]

\* A room change view with the price validator alone.
RoomEditUnguarded(w, room, g) ==
    IF g.price < 1 THEN [ok |-> FALSE, err |-> "price", w |-> w]
    ELSE [ok |-> TRUE, err |-> "ok", w |-> [w EXCEPT !.rooms[room] = RoomRow(g)]]

\* The change view of a room: the price validator, RoomAdminForm.clean()
\* (refused while the room has an active reservation), then save_model.
RoomEdit(w, room, g) ==
    IF g.price < 1 THEN [ok |-> FALSE, err |-> "price", w |-> w]
    ELSE IF HasActive(w, OfRoom(w, room))
        THEN [ok |-> FALSE, err |-> "room_active", w |-> w]
    ELSE [ok |-> TRUE, err |-> "ok", w |-> [w EXCEPT !.rooms[room] = RoomRow(g)]]

\* Model.delete() of a room: the row goes, and with it (on_delete=CASCADE)
\* every reservation that references it; the cascade removes the rows
\* without calling Reservation.delete().
RoomCascade(w, room) ==
    [w EXCEPT !.rooms = Drop(@, room),
              !.res = [i \in (DOMAIN w.res) \ OfRoom(w, room) |-> w.res[i]]]

\* RoomAdmin.delete_model
RoomDelete(w, room) ==
    IF HasActive(w, OfRoom(w, room))
    THEN [ok |-> FALSE, err |-> "room_active", w |-> w]
    ELSE [ok |-> TRUE, err |-> "ok", w |-> RoomCascade(w, room)]

\* for r in queryset: r.delete()
RECURSIVE RoomDeleteLoop(_, _)
RoomDeleteLoop(w, S) ==
    IF S = {} THEN w
    ELSE RoomDeleteLoop(RoomCascade(w, Least(S)), S \ {Least(S)})

\* A batch delete that checks each room when its turn comes and skips the
\* guarded ones.
RoomDeleteFree(w, sel) ==
    [ok |-> ~(\E r \in sel : HasActive(w, OfRoom(w, r))),
     err |-> IF \E r \in sel : HasActive(w, OfRoom(w, r)) THEN "active_selected" ELSE "ok",
     w |-> RoomDeleteLoop(w, {r \in sel : ~HasActive(w, OfRoom(w, r))})]

\* RoomAdmin.safe_delete_selected: refused as a whole when a selected room
\* has an active reservation.
RoomDeleteSelected(w, sel) ==
    IF \E r \in sel : HasActive(w, OfRoom(w, r))
    THEN [ok |-> FALSE, err |-> "active_selected", w |-> w]
    ELSE [ok |-> TRUE, err |-> "ok", w |-> RoomDeleteLoop(w, sel)]

\* --------------------------------------------------------- CustomerAdmin

NameInputs == {"b"}

\* The change view of a customer: CustomerAdminForm.clean() refuses while
\* the customer has a CheckedIn reservation.
CustomerEdit(w, c, name) ==
    IF \E i \in OfCustomer(w, c) : w.res[i].status = "CheckedIn"
    THEN [ok |-> FALSE, err |-> "customer_checkedin", w |-> w]
    ELSE [ok |-> TRUE, err |-> "ok", w |-> [w EXCEPT !.customers[c].name = name]]

\* Model.delete() of a customer, with the cascade over its reservations.
CustomerCascade(w, c) ==
    [w EXCEPT !.customers = Drop(@, c),
              !.res = [i \in (DOMAIN w.res) \ OfCustomer(w, c) |-> w.res[i]]]

\* A customer delete view that looks at CheckedIn reservations only.
CustomerDeleteUnlessCheckedIn(w, c) ==
    IF \E i \in OfCustomer(w, c) : w.res[i].status = "CheckedIn"
    THEN [ok |-> FALSE, err |-> "customer_active", w |-> w]
    ELSE [ok |-> TRUE, err |-> "ok", w |-> CustomerCascade(w, c)]

\* CustomerAdmin.delete_model
CustomerDelete(w, c) ==
    IF HasActive(w, OfCustomer(w, c))
    THEN [ok |-> FALSE, err |-> "customer_active", w |-> w]
    ELSE [ok |-> TRUE, err |-> "ok", w |-> CustomerCascade(w, c)]

\* for c in queryset: c.delete()
RECURSIVE CustomerDeleteLoop(_, _)
CustomerDeleteLoop(w, S) ==
    IF S = {} THEN w
    ELSE CustomerDeleteLoop(CustomerCascade(w, Least(S)), S \ {Least(S)})

\* CustomerAdmin.safe_delete_selected: refused as a whole when a selected
\* customer has an active reservation.
CustomerDeleteSelected(w, sel) ==
    IF \E c \in sel : HasActive(w, OfCustomer(w, c))
    THEN [ok |-> FALSE, err |-> "active_selected", w |-> w]
    ELSE [ok |-> TRUE, err |-> "ok", w |-> CustomerDeleteLoop(w, sel)]

\* ------------------------------------------------------------ the requests

\* The response of a request: a refusal stays pending until it is delivered,
\* a success leaves nothing pending.
OkResp == [op |-> "-", ok |-> TRUE, err |-> "ok", id |-> 0, want |-> "-"]

Refusal(op, e, id, want) ==
    [op |-> op, ok |-> FALSE, err |-> e, id |-> id, want |-> want]

\* The request ends: the store is as the handler left it, the response is
\* the handler's outcome.
Respond(op, r, id, want) ==
    /\ SetWorld(r.w)
    /\ last' = IF r.ok THEN OkResp
               ELSE Refusal(op, r.err, id, IF r.err = "status_choice" THEN want ELSE "-")

InitStore ==
    /\ res = << >>
    /\ nextId = 1
    /\ income = << >>
    /\ expense = << >>
    /\ today = 1
    /\ mem = NoObj
    /\ last = OkResp

Init ==
    /\ InitStore
    /\ rooms = (101 :> NewRoom(100, 1))
    /\ customers = [c \in CustIds |-> NewCustomer]

\* The refusal is rendered to the user.
Deliver ==
    /\ ~last.ok
    /\ last' = OkResp
    /\ UNCHANGED <<db, today, mem>>

\* date.today() moves on.
Tick ==
    /\ last.ok
    /\ today <= MaxDay
    /\ today' = today + 1
    /\ UNCHANGED <<db, mem, last>>

\* The add view, on a form out of F.
AddFrom(F) ==
    \E f \in F :
        /\ last.ok
        /\ nextId <= MaxRes
        /\ Respond("add", AdminAddResult(World, f, today), 0, f.status)
        /\ UNCHANGED <<today, mem>>

\* The change view, on a form out of F.
ChangeFrom(F) ==
    \E id \in DOMAIN res, f \in F :
        /\ last.ok
        /\ Respond("change", AdminChangeResult(World, id, f, today), id, f.status)
        /\ UNCHANGED <<today, mem>>

AdminAdd == AddFrom(Forms)

AdminChange == ChangeFrom(Forms)

AdminCheckin ==
    \E sel \in (SUBSET DOMAIN res) \ {{}} :
        /\ last.ok
        /\ Respond("make_checkin", MakeCheckin(World, sel, today), 0, "-")
        /\ UNCHANGED <<today, mem>>

AdminCheckout ==
    \E sel \in (SUBSET DOMAIN res) \ {{}} :
        /\ last.ok
        /\ Respond("make_checkout", MakeCheckout(World, sel, today), 0, "-")
        /\ UNCHANGED <<today, mem>>

AdminCancel ==
    \E sel \in (SUBSET DOMAIN res) \ {{}} :
        /\ last.ok
        /\ Respond("cancel", CancelReservations(World, sel, today), 0, "-")
        /\ UNCHANGED <<today, mem>>

AdminDeleteSelected ==
    \E sel \in (SUBSET DOMAIN res) \ {{}} :
        /\ last.ok
        /\ Respond("delete_selected", SafeDeleteSelected(World, sel), 0, "-")
        /\ UNCHANGED <<today, mem>>

AdminDelete ==
    \E id \in DOMAIN res :
        /\ last.ok
        /\ Respond("delete", DeleteModel(World, id), id, "-")
        /\ UNCHANGED <<today, mem>>

AdminRoomChange ==
    \E room \in DOMAIN rooms, st \in ROOM_STATUS :
        /\ last.ok
        /\ Respond("room_change", RoomChange(World, room, st), 0, "-")
        /\ UNCHANGED <<today, mem>>

Next ==
    \/ Deliver
    \/ Tick
    \/ AdminAdd
    \/ AdminChange
    \/ AdminCheckin
    \/ AdminCheckout
    \/ AdminCancel
    \/ AdminDeleteSelected
    \/ AdminDelete
    \/ AdminRoomChange

\* The admin site serving one request at a time.
Spec == Init /\ [][Next]_vars

\* -------------------------------------------------- callers of the model

\* A caller of the model layer (a shell, a script, a view holding an
\* instance) keeps one Reservation instance in mem and calls its methods;
\* no form stands between the caller and save(). With one instance held at
\* a time the cached room object of the instance is never stale, so the
\* room is read from the store.

\* The call returns: the store as the method left it, the instance as the
\* method left it (dropped when save() raised), the exception if any.
Return(op, r) ==
    /\ SetWorld(r.w)
    /\ mem' = IF r.ok THEN r.o ELSE NoObj
    /\ last' = IF r.ok THEN OkResp ELSE Refusal(op, r.err, 0, "-")

\* The ledgers have room for what one call can add.
LedgerRoom == Len(income) < MaxLedger /\ Len(expense) < MaxLedger

\* Reservation(...).save()
EngCreate ==
    \E f \in Forms :
        /\ last.ok
        /\ nextId <= MaxRes
        /\ LedgerRoom
        /\ Return("create", Save(World, NewObj(f), today))
        /\ UNCHANGED today

\* Reservation.objects.get(pk=id)
EngGet ==
    \E id \in DOMAIN res :
        /\ last.ok
        /\ mem' = Load(World, id)
        /\ UNCHANGED <<db, today, last>>

\* obj.save() again, nothing assigned in between.
EngSave ==
    /\ last.ok
    /\ mem.pk # 0
    /\ LedgerRoom
    /\ Return("save", Save(World, mem, today))
    /\ UNCHANGED today

\* obj.<field> = ...; obj.save()
EngUpdate ==
    \E f \in Forms :
        /\ last.ok
        /\ mem.pk # 0
        /\ LedgerRoom
        /\ Return("update", Save(World, Assigned(mem, f), today))
        /\ UNCHANGED today

\* obj.delete(); the caller drops the deleted instance.
EngDelete ==
    /\ last.ok
    /\ mem.pk # 0
    /\ LedgerRoom
    /\ SetWorld(Delete(World, mem).w)
    /\ mem' = NoObj
    /\ UNCHANGED <<today, last>>

InitEngine ==
    /\ InitStore
    /\ rooms = (101 :> NewRoom(100, 1))
    /\ customers = [c \in CustIds |-> NewCustomer]

NextEngine ==
    \/ Deliver
    \/ Tick
    \/ EngCreate
    \/ EngGet
    \/ EngSave
    \/ EngUpdate
    \/ EngDelete

\* The model layer under a caller holding one instance.
SpecEngine == InitEngine /\ [][NextEngine]_vars

\* ------------------------------------- the site with its two directories

SiteRoomEdit ==
    \E room \in DOMAIN rooms, g \in RoomForms :
        /\ last.ok
        /\ Respond("room_edit", RoomEdit(World, room, g), room, "-")
        /\ UNCHANGED <<today, mem>>

SiteRoomDelete ==
    \E room \in DOMAIN rooms :
        /\ last.ok
        /\ Respond("room_delete", RoomDelete(World, room), room, "-")
        /\ UNCHANGED <<today, mem>>

SiteRoomDeleteSelected ==
    \E sel \in (SUBSET DOMAIN rooms) \ {{}} :
        /\ last.ok
        /\ Respond("room_delete_selected", RoomDeleteSelected(World, sel), 0, "-")
        /\ UNCHANGED <<today, mem>>

SiteCustomerEdit ==
    \E c \in DOMAIN customers, name \in NameInputs :
        /\ last.ok
        /\ Respond("customer_edit", CustomerEdit(World, c, name), c, "-")
        /\ UNCHANGED <<today, mem>>

SiteCustomerDelete ==
    \E c \in DOMAIN customers :
        /\ last.ok
        /\ Respond("customer_delete", CustomerDelete(World, c), c, "-")
        /\ UNCHANGED <<today, mem>>

SiteCustomerDeleteSelected ==
    \E sel \in (SUBSET DOMAIN customers) \ {{}} :
        /\ last.ok
        /\ Respond("customer_delete_selected", CustomerDeleteSelected(World, sel), 0, "-")
        /\ UNCHANGED <<today, mem>>

SiteCustIds == {1, 2}

\* The reservation forms of this specification: one night from day 1 for
\* one guest, any customer, room and status.
SiteForms ==
    [customer : DOMAIN customers, room : DOMAIN rooms, ci : {1}, co : {2},
     guests : {1}, status : STATUS]

SiteAdd == AddFrom(SiteForms)

SiteChange == ChangeFrom(SiteForms)

InitSite ==
    /\ InitStore
    /\ rooms = (101 :> NewRoom(100, 1)) @@ (102 :> NewRoom(100, 1))
    /\ customers = [c \in SiteCustIds |-> NewCustomer]

NextSite ==
    \/ Deliver
    \/ SiteAdd
    \/ SiteChange
    \/ AdminCancel
    \/ AdminDeleteSelected
    \/ AdminDelete
    \/ SiteRoomEdit
    \/ SiteRoomDelete
    \/ SiteRoomDeleteSelected
    \/ SiteCustomerEdit
    \/ SiteCustomerDelete
    \/ SiteCustomerDeleteSelected

\* The admin site with the room and customer directories, one request at a
\* time, on one day.
SpecSite == InitSite /\ [][NextSite]_vars

\* ------------------------------------------- two requests at the same time

\* Two workers serve requests at the same time. No handler takes a lock or
\* reads under serializable isolation, so the validation of one request
\* (the form and the full_clean() of save(), which run the conflict SELECT)
\* and its writes (super().save() and what follows) are two steps, and the
\* steps of the other worker may fall between them. mem holds, per worker,
\* the validated instance whose writes are still to come.
Workers == {1, 2}

Idle == [p \in Workers |-> NoObj]

\* The new instances validated and not yet inserted.
PendingNew == {p \in Workers : mem[p] # NoObj /\ mem[p].pk = 0}

\* The reservation forms of this specification: one guest, any dates, an
\* active status.
RaceForms ==
    [customer : DOMAIN customers, room : DOMAIN rooms, ci : Days, co : Days,
     guests : {1}, status : AddStatusChoices]

\* The instance as validation leaves it: cleaned, with the auto check-out
\* of save() applied.
Validated(w, o, day) == AutoCheckout(FullClean(w, o).o, day)

\* The worker's request ends at validation (refused) or goes on holding
\* the validated instance o.
Proceed(p, op, r, o, id) ==
    /\ mem' = IF r.ok THEN [mem EXCEPT ![p] = o] ELSE mem
    /\ last' = IF r.ok THEN last ELSE Refusal(op, r.err, id, "-")
    /\ UNCHANGED <<db, today>>

\* Worker p validates an add form against the store as it is now.
RaceAddCheck(p) ==
    \E f \in RaceForms :
        /\ mem[p] = NoObj
        /\ nextId + Cardinality(PendingNew) <= MaxRes
        /\ Proceed(p, "add", AdminAddResult(World, f, today),
                   Validated(World, NewObj(f), today), 0)

\* Worker p validates a change form (new dates) against the store as it is
\* now.
RaceChangeCheck(p) ==
    \E id \in DOMAIN res, f \in RaceForms :
        /\ mem[p] = NoObj
        /\ f.status = res[id].status
        /\ Proceed(p, "change", AdminChangeResult(World, id, f, today),
                   Validated(World, ChangedObj(Load(World, id), f, f.status), today), id)

\* Worker p writes the instance it validated: the row, the room status,
\* the income entry.
RaceWrite(p) ==
    /\ mem[p] # NoObj
    /\ SetWorld(SaveRow(World, mem[p]).w)
    /\ mem' = [mem EXCEPT ![p] = NoObj]
    /\ UNCHANGED <<today, last>>

\* Worker p serves a whole cancel_reservations request on one selected
\* reservation, while the other worker may hold a validated instance. The
\* ledger is followed up to MaxLedger refund entries.
RaceCancel(p) ==
    \E id \in DOMAIN res :
        /\ mem[p] = NoObj
        /\ Len(expense) < MaxLedger
        /\ SetWorld(CancelReservations(World, {id}, today).w)
        /\ last' = IF CancelReservations(World, {id}, today).ok THEN last
                   ELSE Refusal("cancel", CancelReservations(World, {id}, today).err, 0, "-")
        /\ UNCHANGED <<today, mem>>

InitRace ==
    /\ res = << >>
    /\ nextId = 1
    /\ income = << >>
    /\ expense = << >>
    /\ today = 1
    /\ mem = Idle
    /\ last = OkResp
    /\ rooms = (101 :> NewRoom(100, 1))
    /\ customers = [c \in CustIds |-> NewCustomer]

NextRace ==
    \E p \in Workers :
        \/ RaceAddCheck(p)
        \/ RaceChangeCheck(p)
        \/ RaceWrite(p)

\* The admin site under two concurrent requests.
SpecRace == InitRace /\ [][NextRace]_vars

NextLost ==
    \E p \in Workers :
        \/ RaceAddCheck(p)
        \/ RaceChangeCheck(p)
        \/ RaceWrite(p)
        \/ RaceCancel(p)

\* The same site when a cancellation may run beside an edit.
SpecLost == InitRace /\ [][NextLost]_vars

\* ------------------------------------------------- writes that can fail

\* A write of save() can fail (connection lost, lock wait timeout, ...):
\* the exception leaves save() at that write. save() opens no transaction.
\* The add and change views run inside the transaction of the admin view,
\* so their earlier writes are rolled back; the batch actions run in
\* autocommit, so the earlier writes of the failing save() stay.
FAILING == {"room", "income_insert", "income_flag", "expense_insert", "refund_flag"}

\* The row write and the room-status write of save().
RowAndRoom(w, o) == UpdateRoomStatus(WriteRow(w, o), o.room)

\* The instance inside _process_refund(), refund_amount assigned.
Refunding(o) == [o EXCEPT !.refund = o.paid]

\* _process_refund() runs its writes in this save().
RefundDueOnSave(w, o) ==
    /\ OldStatus(w, o) \notin {"New", "Refunded"}
    /\ o.status = "Refunded"
    /\ ~o.refRec
    /\ o.paid > 0

\* save() on the validated instance o attempts write x.
Attempts(w, o, x) ==
    CASE x = "room" ->
            WriteRow(w, o).rooms[o.room].status # RowAndRoom(w, o).rooms[o.room].status
      [] x \in {"income_insert", "income_flag"} -> o.paid > 0 /\ ~o.incRec
      [] OTHER -> RefundDueOnSave(w, o)

\* The store when write x of save() on the validated instance o fails in
\* autocommit: the writes before x.
FailAt(w, o, x) ==
    CASE x = "room" -> WriteRow(w, o)
      [] x = "income_insert" -> RowAndRoom(w, o)
      [] x = "income_flag" -> AddIncome(RowAndRoom(w, o), WithPk(w, o))
      [] x = "expense_insert" -> SaveIncome(RowAndRoom(w, o), WithPk(w, o))
      [] OTHER ->
            RefundAnnotate(
                AddExpense(SaveIncome(RowAndRoom(w, o), WithPk(w, o)), Refunding(WithPk(w, o))),
                Refunding(WithPk(w, o)))

\* The reservation forms of this specification: one night from day 1 for
\* one guest.
FaultForms ==
    [customer : DOMAIN customers, room : DOMAIN rooms, ci : {1}, co : {2},
     guests : {1}, status : STATUS]

FaultAdd == AddFrom(FaultForms)

\* The add view when a write of save() fails: the view's transaction is
\* rolled back.
FaultAddFails ==
    \E f \in FaultForms, x \in FAILING :
        /\ last.ok
        /\ nextId <= MaxRes
        /\ AdminAddResult(World, f, today).ok
        /\ Attempts(World, Validated(World, NewObj(f), today), x)
        /\ last' = Refusal("add", "db_error", 0, "-")
        /\ UNCHANGED <<db, today, mem>>

\* A batch transition whose save() of reservation id fails at write x.
TransitionFails(op, from, to) ==
    \E id \in DOMAIN res, x \in FAILING :
        /\ last.ok
        /\ res[id].status = from
        /\ Save(World, [Load(World, id) EXCEPT !.status = to], today).ok
        /\ Attempts(World, Validated(World, [Load(World, id) EXCEPT !.status = to], today), x)
        /\ SetWorld(FailAt(World,
                           Validated(World, [Load(World, id) EXCEPT !.status = to], today), x))
        /\ last' = Refusal(op, "db_error", id, "-")
        /\ UNCHANGED <<today, mem>>

FaultCheckinFails == TransitionFails("make_checkin", "Booked", "CheckedIn")

FaultCheckoutFails == TransitionFails("make_checkout", "CheckedIn", "CheckedOut")

FaultCancelFails == TransitionFails("cancel", "Booked", "Refunded")

NextFault ==
    \/ Deliver
    \/ FaultAdd
    \/ FaultAddFails
    \/ AdminCheckin
    \/ AdminCheckout
    \/ AdminCancel
    \/ AdminDelete
    \/ FaultCheckinFails
    \/ FaultCheckoutFails
    \/ FaultCancelFails

\* The admin site, one request at a time, with writes that can fail.
SpecFault == Init /\ [][NextFault]_vars

\* ------------------------------------- primary keys with a common prefix

\* The site after some history: reservation 1 is Booked on room 101 with
\* its income entry; reservations 2 to 9 were created and deleted since and
\* their ledger entries removed in the finance admin, so the next primary
\* key is 10. Room 102 is free.
LastId == 10

FirstRow ==
    [customer |-> 1, room |-> 101, ci |-> 1, co |-> 2, guests |-> 1, status |-> "Booked",
     paid |-> 100, refund |-> 0, incRec |-> TRUE, refRec |-> FALSE]

InitLedger ==
    /\ res = (1 :> FirstRow)
    /\ nextId = LastId
    /\ rooms = (101 :> [NewRoom(100, 1) EXCEPT !.status = "Booked"])
                    @@ (102 :> NewRoom(100, 1))
    /\ customers = [c \in CustIds |-> NewCustomer]
    /\ income = <<[rid |-> 1, amount |-> 100, notes |-> <<>>]>>
    /\ expense = << >>
    /\ today = 1
    /\ mem = NoObj
    /\ last = OkResp

\* The reservation forms of this specification: one night from day 1 for
\* one guest, Booked or CheckedIn.
LedgerForms ==
    [customer : DOMAIN customers, room : DOMAIN rooms, ci : {1}, co : {2},
     guests : {1}, status : AddStatusChoices]

\* The add view, while primary keys up to LastId are handed out.
LedgerAdd ==
    \E f \in LedgerForms :
        /\ last.ok
        /\ nextId <= LastId
        /\ Respond("add", AdminAddResult(World, f, today), 0, f.status)
        /\ UNCHANGED <<today, mem>>

\* IncomeAdmin, a plain ModelAdmin: an income entry is deleted by hand.
FinanceDeleteIncome ==
    \E k \in 1..Len(income) :
        /\ last.ok
        /\ income' = SubSeq(income, 1, k - 1) \o SubSeq(income, k + 1, Len(income))
        /\ UNCHANGED <<res, nextId, rooms, customers, expense, today, mem, last>>

NextLedger ==
    \/ Deliver
    \/ LedgerAdd
    \/ AdminCheckout
    \/ AdminCancel
    \/ AdminDelete
    \/ FinanceDeleteIncome

\* The admin site with the finance admin, on primary keys 1 and 10.
SpecLedger == InitLedger /\ [][NextLedger]_vars

\* ============================================================ properties

\* The active reservations of a room.
ActiveOn(room) ==
    {i \in DOMAIN res : res[i].room = room /\ res[i].status \in ActiveStatus}

SecondBookingIffDisjoint ==
    \A f \in Forms : \A a \in DOMAIN res :
        ( /\ ActiveOn(f.room) = {a}
          /\ f.ci < f.co
          /\ f.guests >= MinGuests /\ f.guests <= rooms[f.room].capacity
          /\ f.status \in AddStatusChoices )
        => (AdminAddResult(World, f, today).ok
                <=> ~(res[a].ci < f.co /\ f.ci < res[a].co))

\* C3: a new reservation is created only on an Available room. A creation
\* attempt on a room whose status is Booked, Occupied or Maintenance is
\* rejected and the store is left as it was.
CreateOnlyOnAvailable ==
    \A f \in Forms :
        rooms[f.room].status # "Available"
            => /\ ~AdminAddResult(World, f, today).ok
               /\ AdminAddResult(World, f, today).w = World

\* An add request was refused because its room is not Available.
AddRefusedRoomTaken ==
    /\ last.op = "add"
    /\ last.err = "room_choice"
    /\ \A r \in DOMAIN rooms : rooms[r].status # "Available"

TERMINAL == {"CheckedOut", "Refunded"}

\* C4: terminal states are sticky. Once the stored status of a reservation
\* is CheckedOut or Refunded, no request (single edit, batch check-in, batch
\* check-out, batch cancel) changes it while the reservation is stored.
TerminalSticky ==
    [][\A i \in DOMAIN res :
          (res[i].status \in TERMINAL /\ i \in DOMAIN res')
              => res'[i].status = res[i].status]_vars

\* A Refunded reservation was edited after its refund (its dates, hence its
\* paid amount, changed) and is still Refunded.
RefundedEditedLater ==
    \E i \in DOMAIN res :
        /\ res[i].status = "Refunded"
        /\ res[i].refRec
        /\ res[i].paid # res[i].refund

\* The status edges of the reservation state machine.
EDGES ==
    {<<"Booked", "CheckedIn">>, <<"CheckedIn", "CheckedOut">>, <<"Booked", "Refunded">>}

\* C5 as stated: every change of a stored status follows Booked->CheckedIn,
\* CheckedIn->CheckedOut or Booked->Refunded.
OnlyListedEdges ==
    [][\A i \in (DOMAIN res) \cap (DOMAIN res') :
          res'[i].status # res[i].status
              => <<res[i].status, res'[i].status>> \in EDGES]_vars

\* C5: every change of a stored status follows Booked->CheckedIn,
\* CheckedIn->CheckedOut or Booked->Refunded, or is Booked->CheckedOut in
\* one request that checks in a reservation whose check-out date is already
\* before today (the auto check-out of save()).
EdgesWithAutoCheckout ==
    [][\A i \in (DOMAIN res) \cap (DOMAIN res') :
          res'[i].status # res[i].status
              => \/ <<res[i].status, res'[i].status>> \in EDGES
                 \/ /\ res[i].status = "Booked"
                    /\ res'[i].status = "CheckedOut"
                    /\ res'[i].co < today]_vars

\* A Booked reservation past its check-out date whose check-in request
\* stores it as CheckedOut.
CheckinLandsCheckedOut ==
    \E i \in DOMAIN res :
        /\ res[i].status = "Booked"
        /\ res[i].co < today
        /\ MakeCheckin(World, {i}, today).ok
        /\ MakeCheckin(World, {i}, today).w.res[i].status = "CheckedOut"

\* The stored fields of reservation i resubmitted with another status.
Resubmit(i, st) ==
    [customer |-> res[i].customer, room |-> res[i].room, ci |-> res[i].ci,
     co |-> res[i].co, guests |-> res[i].guests, status |-> st]

\* C6: an attempt to move a CheckedIn reservation to Refunded, by a single
\* edit or by batch cancel, fails with a validation error and leaves the
\* whole store (status, refund_amount, refund_recorded, room status,
\* ledger) unchanged; the reservation can then still be moved to CheckedOut.
CheckedInNotRefundable ==
    \A i \in DOMAIN res :
        res[i].status = "CheckedIn"
            => /\ \A f \in Forms :
                    f.status = "Refunded"
                        => /\ ~AdminChangeResult(World, i, f, today).ok
                           /\ AdminChangeResult(World, i, f, today).err
                                  \in {"status_choice", "checkedin_refund"}
                           /\ AdminChangeResult(World, i, f, today).w = World
               /\ \A sel \in SUBSET DOMAIN res :
                    i \in sel
                        => /\ ~CancelReservations(World, sel, today).ok
                           /\ CancelReservations(World, sel, today).w = World
               /\ AdminChangeResult(World, i, Resubmit(i, "CheckedOut"), today).ok
               /\ AdminChangeResult(World, i, Resubmit(i, "CheckedOut"), today)
                      .w.res[i].status = "CheckedOut"

\* A change request asking Refunded for a CheckedIn reservation was refused.
RefundOfCheckedInRefused ==
    /\ last.op = "change"
    /\ last.err = "status_choice"
    /\ last.want = "Refunded"
    /\ last.id \in DOMAIN res
    /\ res[last.id].status = "CheckedIn"

\* C7: at-most-once income. No reservation has more than one entry in the
\* income ledger, however often it was saved.
AtMostOneIncome ==
    \A k1, k2 \in 1..Len(income) :
        income[k1].rid = income[k2].rid => k1 = k2

\* C8: at-most-once refund. No reservation has more than one refund entry
\* in the expense ledger, over any sequence of saves and the deletion.
AtMostOneRefund ==
    \A k1, k2 \in 1..Len(expense) :
        expense[k1].rid = expense[k2].rid => k1 = k2

\* C9: the stored flags are monotonic. Once income_recorded or
\* refund_recorded is true in the store, no later operation on the stored
\* reservation writes it back to false.
FlagsMonotonic ==
    [][\A i \in (DOMAIN res) \cap (DOMAIN res') :
          /\ res[i].incRec => res'[i].incRec
          /\ res[i].refRec => res'[i].refRec]_vars

\* C10: full refund. Every stored reservation with refund_recorded true
\* has refund_amount equal to paid_amount.
RefundEqualsPaid ==
    \A i \in DOMAIN res : res[i].refRec => res[i].refund = res[i].paid

\* Amounts a caller may put into paid_amount before saving.
PaidInputs == {0, 50, 999}

\* The nightly price times the nights of a stored reservation.
NightsPrice(w, i) == (w.res[i].co - w.res[i].ci) * w.rooms[w.res[i].room].price

\* A successful save stored nights x price, and saving the returned
\* instance again stores the same amount.
PaidAsComputed(r, day) ==
    r.ok => /\ r.w.res[r.o.pk].paid = NightsPrice(r.w, r.o.pk)
            /\ Save(r.w, r.o, day).ok
            /\ Save(r.w, r.o, day).w.res[r.o.pk].paid = r.w.res[r.o.pk].paid

\* C11: after every successful create or update the stored paid_amount is
\* nights x the room's nightly price, whatever paid_amount the caller put
\* on the instance, and saving again without changing dates or room stores
\* the same amount.
PaidRecomputedOnSave ==
    \A f \in Forms : \A p \in PaidInputs :
        /\ PaidAsComputed(Save(World, [NewObj(f) EXCEPT !.paid = p], today), today)
        /\ mem.pk # 0
            => PaidAsComputed(Save(World, [Assigned(mem, f) EXCEPT !.paid = p], today), today)

\* The held instance was saved for two nights and its row holds twice the
\* nightly price.
TwoNightsStored ==
    /\ mem.pk \in DOMAIN res
    /\ res[mem.pk].co - res[mem.pk].ci = 2
    /\ res[mem.pk].paid = 2 * rooms[res[mem.pk].room].price
    /\ res[mem.pk].paid > 0

\* C12: in every reachable state every stored reservation has paid_amount
\* equal to its nights x the current price of its room, also after the
\* price edits that the room guard lets through.
PaidMatchesCurrentPrice ==
    \A i \in DOMAIN res : res[i].paid = NightsPrice(World, i)

\* Reservation i was created, rewritten or removed by the step, on room r.
Touched(i, r) ==
    \/ i \in DOMAIN res /\ res[i].room = r /\ (i \notin DOMAIN res' \/ res'[i] # res[i])
    \/ i \in DOMAIN res' /\ res'[i].room = r /\ (i \notin DOMAIN res \/ res'[i] # res[i])

\* C13: room-status synchronisation. After every step that creates,
\* rewrites or deletes a reservation, the status of the reservation's room
\* is Occupied if a reservation on it is CheckedIn, else Booked if one is
\* Booked, else Available, unless the room was in Maintenance, which stays.
RoomStatusSynced ==
    [][\A r \in (DOMAIN rooms) \cap (DOMAIN rooms') :
          (\E i \in (DOMAIN res) \cup (DOMAIN res') : Touched(i, r))
              => rooms'[r].status =
                    IF \E i \in DOMAIN res' : res'[i].room = r /\ res'[i].status = "CheckedIn"
                        THEN "Occupied"
                    ELSE IF \E i \in DOMAIN res' : res'[i].room = r /\ res'[i].status = "Booked"
                        THEN "Booked"
                    ELSE IF rooms[r].status = "Maintenance" THEN "Maintenance"
                    ELSE "Available"]_vars

\* A room is Occupied by a CheckedIn reservation next to a reservation that
\* is no longer active.
OccupiedNextToFinished ==
    \E i, j \in DOMAIN res :
        /\ res[i].room = res[j].room
        /\ res[i].status = "CheckedIn"
        /\ res[j].status \in TERMINAL
        /\ rooms[res[i].room].status = "Occupied"

\* The stores that one reservation request can leave behind from the
\* current state: add, change, the batch actions and the deletes, on every
\* input.
ReservationOutcomes ==
    {AdminAddResult(World, f, today).w : f \in Forms}
    \cup {AdminChangeResult(World, x[1], x[2], today).w : x \in (DOMAIN res) \X Forms}
    \cup {MakeCheckin(World, sel, today).w : sel \in SUBSET DOMAIN res}
    \cup {MakeCheckout(World, sel, today).w : sel \in SUBSET DOMAIN res}
    \cup {CancelReservations(World, sel, today).w : sel \in SUBSET DOMAIN res}
    \cup {SafeDeleteSelected(World, sel).w : sel \in SUBSET DOMAIN res}
    \cup {DeleteModel(World, i).w : i \in DOMAIN res}

\* C14: Maintenance is never overwritten automatically. No reservation
\* create, update, transition or delete request changes a room whose status
\* is Maintenance to Available, Booked or Occupied.
MaintenanceKept ==
    \A w \in ReservationOutcomes : \A r \in DOMAIN rooms :
        rooms[r].status = "Maintenance" => w.rooms[r].status = "Maintenance"

\* A finished reservation on a room in Maintenance is deleted and the room
\* stays in Maintenance.
DeleteInMaintenance ==
    \E i \in DOMAIN res :
        /\ rooms[res[i].room].status = "Maintenance"
        /\ DeleteModel(World, i).ok
        /\ i \notin DOMAIN DeleteModel(World, i).w.res
        /\ DeleteModel(World, i).w.rooms[res[i].room].status = "Maintenance"

\* C15: reservation deletion guard. Deleting a Booked or CheckedIn
\* reservation, alone or within a selection, is refused and changes nothing
\* in the store; every reservation that a step removes was CheckedOut or
\* Refunded.
ActiveNeverDeleted ==
    [][/\ \A i \in DOMAIN res :
            res[i].status \in ActiveStatus
                => /\ ~DeleteModel(World, i).ok
                   /\ DeleteModel(World, i).w = World
                   /\ \A sel \in SUBSET DOMAIN res :
                        i \in sel => /\ ~SafeDeleteSelected(World, sel).ok
                                     /\ SafeDeleteSelected(World, sel).w = World
       /\ \A i \in (DOMAIN res) \ (DOMAIN res') : res[i].status \in TERMINAL]_vars

\* The deletion of an active reservation was refused, after another
\* reservation had been deleted.
ActiveDeleteRefused ==
    /\ last.op = "delete"
    /\ last.err = "active"
    /\ last.id \in DOMAIN res
    /\ res[last.id].status \in ActiveStatus
    /\ \E i \in 1..(nextId - 1) : i \notin DOMAIN res

\* C16: room guard. While a reservation on a room is Booked or CheckedIn,
\* editing the room, deleting it, and deleting a selection that holds it are
\* refused and change nothing in the store; so no step deletes the room of
\* an active reservation or changes its price or capacity.
RoomGuarded ==
    [][/\ \A r \in DOMAIN rooms :
            (\E i \in DOMAIN res : res[i].room = r /\ res[i].status \in ActiveStatus)
                => /\ \A g \in RoomForms : /\ ~RoomEdit(World, r, g).ok
                                           /\ RoomEdit(World, r, g).w = World
                   /\ ~RoomDelete(World, r).ok
                   /\ RoomDelete(World, r).w = World
                   /\ \A sel \in SUBSET DOMAIN rooms :
                        r \in sel => /\ ~RoomDeleteSelected(World, sel).ok
                                     /\ RoomDeleteSelected(World, sel).w = World
       /\ \A i \in DOMAIN res :
            res[i].status \in ActiveStatus
                => /\ res[i].room \in DOMAIN rooms'
                   /\ rooms'[res[i].room].price = rooms[res[i].room].price
                   /\ rooms'[res[i].room].capacity = rooms[res[i].room].capacity]_vars

\* The edit of a room with an active reservation was refused, while the
\* other room had its price changed.
RoomEditRefused ==
    /\ last.op = "room_edit"
    /\ last.err = "room_active"
    /\ last.id \in DOMAIN rooms
    /\ \E i \in DOMAIN res : res[i].room = last.id /\ res[i].status \in ActiveStatus
    /\ \E r \in DOMAIN rooms : rooms[r].price # rooms[last.id].price

\* C17: customer guard. While a reservation of a customer is Booked or
\* CheckedIn, deleting the customer, alone or within a selection, is refused
\* and changes nothing; while one is CheckedIn, editing the customer is
\* refused and changes nothing; so no step removes the customer of an
\* active reservation.
CustomerGuarded ==
    [][/\ \A c \in DOMAIN customers :
            /\ (\E i \in DOMAIN res : res[i].customer = c /\ res[i].status \in ActiveStatus)
                => /\ ~CustomerDelete(World, c).ok
                   /\ CustomerDelete(World, c).w = World
                   /\ \A sel \in SUBSET DOMAIN customers :
                        c \in sel => /\ ~CustomerDeleteSelected(World, sel).ok
                                     /\ CustomerDeleteSelected(World, sel).w = World
            /\ (\E i \in DOMAIN res : res[i].customer = c /\ res[i].status = "CheckedIn")
                => \A name \in NameInputs : /\ ~CustomerEdit(World, c, name).ok
                                            /\ CustomerEdit(World, c, name).w = World
       /\ \A i \in DOMAIN res :
            res[i].status \in ActiveStatus
                => /\ res[i].customer \in DOMAIN customers
                   /\ res[i].customer \in DOMAIN customers'
                   /\ i \in DOMAIN res' => res'[i].customer = res[i].customer]_vars

\* The deletion of a customer with a Booked reservation was refused.
CustomerDeleteRefused ==
    /\ last.op = "customer_delete"
    /\ last.err = "customer_active"
    /\ last.id \in DOMAIN customers
    /\ \E i \in DOMAIN res : res[i].customer = last.id /\ res[i].status = "Booked"

\* C18: batch delete is all-or-nothing at the guard. A batch deletion of
\* reservations, rooms or customers in which one selected item fails its
\* guard (an active reservation; a room or customer with an active
\* reservation) is refused and leaves the whole store as it was.
BatchDeleteAllOrNothing ==
    /\ \A sel \in SUBSET DOMAIN res :
            (\E i \in sel : res[i].status \in ActiveStatus)
                => /\ ~SafeDeleteSelected(World, sel).ok
                   /\ SafeDeleteSelected(World, sel).w = World
    /\ \A sel \in SUBSET DOMAIN rooms :
            (\E r \in sel : \E i \in DOMAIN res :
                    res[i].room = r /\ res[i].status \in ActiveStatus)
                => /\ ~RoomDeleteSelected(World, sel).ok
                   /\ RoomDeleteSelected(World, sel).w = World
    /\ \A sel \in SUBSET DOMAIN customers :
            (\E c \in sel : \E i \in DOMAIN res :
                    res[i].customer = c /\ res[i].status \in ActiveStatus)
                => /\ ~CustomerDeleteSelected(World, sel).ok
                   /\ CustomerDeleteSelected(World, sel).w = World

\* A batch deletion of rooms was refused where the first room of a
\* selection is free to delete and a later one has an active reservation.
MixedRoomBatchRefused ==
    /\ last.op = "room_delete_selected"
    /\ last.err = "active_selected"
    /\ \E r1, r2 \in DOMAIN rooms :
        /\ r1 < r2
        /\ RoomDelete(World, r1).ok
        /\ ~RoomDelete(World, r2).ok
        /\ ~RoomDeleteSelected(World, {r1, r2}).ok

\* The validation errors of a create or update.
VALIDATION_ERRORS ==
    {"dates", "guests", "capacity", "conflict", "status_choice", "checkedin_refund",
     "room_choice"}

\* A refused request: a validation error, and the store as it was.
RefusedCleanly(r) ==
    ~r.ok => (r.w = World /\ r.err \in VALIDATION_ERRORS)

\* C19: a create or update rejected with a validation error causes no
\* partial mutation. Whenever the add view, the change view or save() on a
\* new instance refuses its input, the reservation store, every room and
\* both ledgers are exactly as before.
RejectionWritesNothing ==
    /\ \A f \in Forms :
        /\ RefusedCleanly(AdminAddResult(World, f, today))
        /\ RefusedCleanly(Save(World, NewObj(f), today))
    /\ \A i \in DOMAIN res : \A f \in Forms :
        RefusedCleanly(AdminChangeResult(World, i, f, today))

\* An edit of a finished reservation was refused for a date-range conflict
\* with the active reservation of the room.
ConflictRefused ==
    /\ last.op = "change"
    /\ last.err = "conflict"
    /\ last.id \in DOMAIN res
    /\ \E j \in DOMAIN res : j # last.id /\ res[j].status \in ActiveStatus

\* The refund note on an income entry.
RefundNote(p) == [tag |-> "refunded", amount |-> p]

\* What the cancellation of Booked reservation i, paid p, must leave in the
\* store w: one more expense entry, of category Other and amount p, for
\* reservation i; the row Refunded with refund_recorded and refund_amount p;
\* the refund note appended to the reservation's income entry; the room
\* Available when no active reservation remains on it.
Cancelled(i, p, w) ==
    /\ w.res[i].status = "Refunded"
    /\ w.expense = Append(expense, [rid |-> i, amount |-> p, category |-> "Other"])
    /\ w.res[i].refRec
    /\ w.res[i].refund = p
    /\ \E k \in 1..Len(income) :
        /\ income[k].rid = i
        /\ w.income = [income EXCEPT ![k].notes = Append(@, RefundNote(p))]
    /\ (\A j \in DOMAIN w.res :
            w.res[j].room = res[i].room => w.res[j].status \notin ActiveStatus)
        => w.rooms[res[i].room].status = "Available"

\* C20: cancelling a Booked reservation with paid_amount p > 0, by the
\* change form or by batch cancel, creates exactly one expense entry
\* (category Other) of amount p, stores refund_recorded = true and
\* refund_amount = p, appends the refund note to the reservation's income
\* entry and recomputes the room status.
CancelRefundsInFull ==
    \A i \in DOMAIN res :
        (res[i].status = "Booked" /\ res[i].paid > 0)
            => /\ AdminChangeResult(World, i, Resubmit(i, "Refunded"), today).ok
               /\ Cancelled(i, res[i].paid,
                            AdminChangeResult(World, i, Resubmit(i, "Refunded"), today).w)
               /\ CancelReservations(World, {i}, today).ok
               /\ Cancelled(i, res[i].paid, CancelReservations(World, {i}, today).w)

\* A cancelled reservation: Refunded, refund recorded in full, one expense
\* entry of that amount, the income entry marked, the room Available.
CancelledInStore ==
    \E i \in DOMAIN res :
        /\ res[i].status = "Refunded"
        /\ res[i].refRec
        /\ res[i].paid > 0
        /\ res[i].refund = res[i].paid
        /\ \E k \in 1..Len(expense) :
            expense[k] = [rid |-> i, amount |-> res[i].paid, category |-> "Other"]
        /\ \E k \in 1..Len(income) :
            income[k].rid = i /\ income[k].notes = <<RefundNote(res[i].paid)>>
        /\ rooms[res[i].room].status = "Available"

\* The income entries of reservation id in store w.
IncomeOf(w, id) == {k \in 1..Len(w.income) : w.income[k].rid = id}

\* The outcome r of save() on instance o: when the save succeeded on an
\* instance with paid_amount > 0 and income_recorded false, the store holds
\* exactly one income entry of the reservation, of the paid amount, and the
\* stored income_recorded is true.
IncomeCreated(o, r) ==
    (r.ok /\ r.o.paid > 0 /\ ~o.incRec)
        => /\ Cardinality(IncomeOf(r.w, r.o.pk)) = 1
           /\ \A k \in IncomeOf(r.w, r.o.pk) : r.w.income[k].amount = r.o.paid
           /\ r.w.res[r.o.pk].incRec

\* C21: after a successful save of a reservation with paid_amount > 0 and
\* income_recorded false, exactly one income entry (source Room) of the
\* reservation's paid_amount exists for it, and its stored income_recorded
\* is true. Stated for a new instance and for the instance the caller holds.
IncomeCreatedOnce ==
    /\ \A f \in Forms : IncomeCreated(NewObj(f), Save(World, NewObj(f), today))
    /\ mem.pk # 0 => IncomeCreated(mem, Save(World, mem, today))

\* delete() on instance o made a refund: the expense ledger grew.
RefundOnDelete(w, o) == Len(Delete(w, o).w.expense) > Len(w.expense)

\* The refund condition of delete(), read on instance o.
RefundDue(o) == o.status = "Refunded" /\ o.paid > 0 /\ ~o.refRec

\* delete() on instance o refunds exactly when the instance says a refund
\* is due, by one expense entry of the paid amount; a CheckedOut instance
\* leaves the expense ledger as it is.
DeleteRefundsAsDue(o) ==
    /\ RefundOnDelete(World, o) <=> RefundDue(o)
    /\ RefundDue(o) =>
        Delete(World, o).w.expense
            = Append(expense, [rid |-> o.pk, amount |-> o.paid, category |-> "Other"])
    /\ o.status = "CheckedOut" => Delete(World, o).w.expense = expense

SameEntry(old, new) ==
    /\ new.rid = old.rid
    /\ new.amount = old.amount
    /\ Len(new.notes) >= Len(old.notes)
    /\ SubSeq(new.notes, 1, Len(old.notes)) = old.notes

\* Ledgers inc2, exp2 hold every entry of inc, exp, in place, with its
\* amount.
LedgerKept(inc, exp, inc2, exp2) ==
    /\ Len(inc2) >= Len(inc)
    /\ \A k \in 1..Len(inc) : SameEntry(inc[k], inc2[k])
    /\ Len(exp2) >= Len(exp)
    /\ \A k \in 1..Len(exp) : exp2[k] = exp[k]

DeletedNote == [tag |-> "deleted", amount |-> 0]

\* delete() on instance o keeps the ledgers and leaves the deleted mark as
\* the last mark of an income entry of the reservation.
DeleteMarks(o) ==
    /\ LedgerKept(income, expense, Delete(World, o).w.income, Delete(World, o).w.expense)
    /\ Len(Delete(World, o).w.income) = Len(income)
    /\ \E k \in IncomeOf(World, o.pk) :
        /\ Delete(World, o).w.income[k].notes # <<>>
        /\ Delete(World, o).w.income[k].notes[Len(Delete(World, o).w.income[k].notes)]
              = DeletedNote

\* Deleting through the held instance marks the income entry whenever the
\* stored income_recorded is true.
MarkedWhenStoredRecorded ==
    (mem.pk # 0 /\ mem.pk \in DOMAIN res /\ res[mem.pk].incRec) => DeleteMarks(mem)

\* Deleting marks the income entry whenever the instance's income_recorded
\* is true: the held instance, and every freshly loaded one.
MarkedWhenInstanceRecorded ==
    /\ (mem.pk # 0 /\ mem.incRec) => DeleteMarks(mem)
    /\ \A i \in DOMAIN res : res[i].incRec => DeleteMarks(Load(World, i))

StatusFromReservations(w, r, cur) ==
    IF \E i \in DOMAIN w.res : w.res[i].room = r /\ w.res[i].status = "CheckedIn"
        THEN "Occupied"
    ELSE IF \E i \in DOMAIN w.res : w.res[i].room = r /\ w.res[i].status = "Booked"
        THEN "Booked"
    ELSE IF cur = "Maintenance" THEN "Maintenance"
    ELSE "Available"

\* The outcome r of save() on instance o: when the save succeeded and the
\* check-out date is before today, the stored status is not CheckedIn; an
\* instance that came as CheckedIn is stored CheckedOut and the room has
\* the status its reservations give it after the transition.
PastCheckoutSaved(o, r) ==
    (r.ok /\ o.co < today)
        => /\ r.w.res[r.o.pk].status # "CheckedIn"
           /\ o.status = "CheckedIn"
                => /\ r.w.res[r.o.pk].status = "CheckedOut"
                   /\ r.w.rooms[o.room].status
                        = StatusFromReservations(r.w, o.room, rooms[o.room].status)

\* C24: after any successful save of a reservation whose check-out date is
\* earlier than today the stored status is never CheckedIn; a CheckedIn
\* reservation past its check-out date is stored as CheckedOut by that save
\* and the room status is recomputed from the transitioned status.
AutoCheckoutOnSave ==
    /\ \A f \in Forms : PastCheckoutSaved(NewObj(f), Save(World, NewObj(f), today))
    /\ mem.pk # 0 =>
        /\ PastCheckoutSaved(mem, Save(World, mem, today))
        /\ \A f \in Forms :
            PastCheckoutSaved(Assigned(mem, f), Save(World, Assigned(mem, f), today))

\* The held instance is a CheckedIn reservation, stored as CheckedIn, whose
\* check-out date has passed, and saving it stores CheckedOut and frees
\* the room.
OverdueCheckedInSaved ==
    /\ mem.pk \in DOMAIN res
    /\ mem.status = "CheckedIn"
    /\ res[mem.pk].status = "CheckedIn"
    /\ mem.co < today
    /\ rooms[mem.room].status = "Occupied"
    /\ Save(World, mem, today).ok
    /\ Save(World, mem, today).w.res[mem.pk].status = "CheckedOut"
    /\ Save(World, mem, today).w.rooms[mem.room].status = "Available"

\* C25 as stated: every newly created reservation is stored in status
\* Booked or CheckedIn.
CreatedBookedOrCheckedIn ==
    [][\A i \in (DOMAIN res') \ (DOMAIN res) :
          res'[i].status \in {"Booked", "CheckedIn"}]_vars

\* C25: every newly created reservation is stored Booked or CheckedIn, or
\* CheckedOut when its check-out date is already before today (a CheckedIn
\* creation checked out by the same save); a stored CheckedIn creation is
\* not past its check-out date, and no creation is stored Refunded.
CreatedActiveOrOverdue ==
    [][\A i \in (DOMAIN res') \ (DOMAIN res) :
          /\ res'[i].status \in {"Booked", "CheckedIn", "CheckedOut"}
          /\ res'[i].status = "CheckedOut" => res'[i].co < today
          /\ res'[i].status = "CheckedIn" => res'[i].co >= today]_vars

\* An add form with status CheckedIn and a check-out date before today is
\* accepted and stored as CheckedOut.
OverdueAddStoredCheckedOut ==
    \E f \in Forms :
        /\ f.status = "CheckedIn"
        /\ f.co < today
        /\ nextId <= MaxRes
        /\ AdminAddResult(World, f, today).ok
        /\ AdminAddResult(World, f, today).w.res[nextId].status = "CheckedOut"

\* C26 as stated: every stored reservation has a guest count between 1 and
\* 100 that does not exceed the capacity of its room.
GuestsWithinCapacity ==
    \A i \in DOMAIN res :
        /\ res[i].guests >= MinGuests
        /\ res[i].guests <= MaxGuests
        /\ res[i].guests <= rooms[res[i].room].capacity

\* The forms that probe the guest bounds: one night, any room, every guest
\* count of the input set.
GuestForms ==
    [customer : DOMAIN customers, room : DOMAIN rooms, ci : {1}, co : {2},
     guests : GuestInputs, status : {"Booked"}]

\* Guest count g is outside 1..100 or above the capacity of room r.
GuestsOutOfBounds(g, r) ==
    g < MinGuests \/ g > MaxGuests \/ g > rooms[r].capacity

\* C26: every stored reservation has a guest count between 1 and 100, and
\* one that is Booked or CheckedIn does not exceed the capacity of its
\* room; an add or change form violating either bound is refused with a
\* validation error and writes nothing.
GuestBoundsEnforced ==
    /\ \A i \in DOMAIN res :
        /\ res[i].guests >= MinGuests
        /\ res[i].guests <= MaxGuests
        /\ res[i].status \in ActiveStatus => res[i].guests <= rooms[res[i].room].capacity
    /\ \A f \in GuestForms :
        /\ GuestsOutOfBounds(f.guests, f.room)
            => /\ ~AdminAddResult(World, f, today).ok
               /\ RefusedCleanly(AdminAddResult(World, f, today))
        /\ \A i \in DOMAIN res :
            GuestsOutOfBounds(f.guests, res[i].room)
                => /\ ~AdminChangeResult(World, i, f, today).ok
                   /\ RefusedCleanly(AdminChangeResult(World, i, f, today))

\* An add form was refused because its guests exceed the capacity of the
\* room, which is free to take a reservation.
OverCapacityRefused ==
    /\ last.op = "add"
    /\ last.err = "capacity"
    /\ \E r \in DOMAIN rooms : rooms[r].status = "Available" /\ rooms[r].capacity < 1

\* The outcome r of a save that must be refused: refused, with a validation
\* error, the store as it was.
Refused(r) == ~r.ok /\ RefusedCleanly(r)

\* C27: every stored reservation has check_in_date strictly earlier than
\* check_out_date; a create or update with check_in_date >= check_out_date
\* is rejected with a validation error.
CheckInBeforeCheckOut ==
    /\ \A i \in DOMAIN res : res[i].ci < res[i].co
    /\ \A f \in Forms :
        f.ci >= f.co
            => /\ Refused(Save(World, NewObj(f), today))
               /\ mem.pk # 0 => Refused(Save(World, Assigned(mem, f), today))

\* An update of the held reservation was refused for its dates.
DatesRefused ==
    /\ last.op = "update"
    /\ last.err = "dates"
    /\ res # << >>

\* The active reservations of room r that hold night d.
HoldersOf(r, d) ==
    {i \in DOMAIN res :
        /\ res[i].room = r
        /\ res[i].status \in ActiveStatus
        /\ res[i].ci <= d
        /\ d < res[i].co}

\* C28: under concurrent requests on the same room two bookings with
\* overlapping intervals cannot both pass the conflict check: whatever the
\* interleaving, no night of a room is held by more than one stored active
\* reservation.
OneHolderPerNight ==
    \A r \in DOMAIN rooms : \A d \in Days : Cardinality(HoldersOf(r, d)) <= 1

\* Reservation i is in step with its room and with the ledger: the room of
\* an active reservation shows it, a paid reservation has its income entry
\* and flag, a refunded one its expense entry and flag, and an income or
\* expense entry of the reservation goes with the flag.
InStep(i) ==
    /\ res[i].status = "CheckedIn" => rooms[res[i].room].status = "Occupied"
    /\ res[i].status = "Booked" => rooms[res[i].room].status \in {"Booked", "Occupied"}
    /\ ActiveOn(res[i].room) = {} => rooms[res[i].room].status \notin {"Booked", "Occupied"}
    /\ res[i].paid > 0 => res[i].incRec
    /\ res[i].incRec <=> (\E k \in 1..Len(income) : income[k].rid = i)
    /\ (res[i].status = "Refunded" /\ res[i].paid > 0) => res[i].refRec
    /\ res[i].refRec <=> (\E k \in 1..Len(expense) : expense[k].rid = i)

\* C29: each reservation create, update or delete is atomic with respect
\* to the reservation row, the room status and the ledger: also when a
\* later write of an operation fails, no state is reachable in which a
\* stored reservation is out of step with its room status or with its
\* ledger entry and flag.
WritesAllOrNothing == \A i \in DOMAIN res : InStep(i)

\* Another stored reservation, Booked or CheckedIn on room r, overlaps
\* [ci, co).
OtherOverlaps(id, r, ci, co) ==
    \E j \in DOMAIN res :
        /\ j # id
        /\ res[j].room = r
        /\ res[j].status \in ActiveStatus
        /\ res[j].ci < co
        /\ ci < res[j].co

\* C30: conflict detection excludes the reservation being edited: an
\* update of an existing reservation is rejected for a date conflict only
\* if some other Booked or CheckedIn reservation on the same room overlaps
\* the new interval; re-saving an active reservation with unchanged dates
\* never conflicts with itself.
ConflictExcludesSelf ==
    mem.pk \in DOMAIN res =>
        /\ \A f \in Forms :
            Save(World, Assigned(mem, f), today).err = "conflict"
                => OtherOverlaps(mem.pk, f.room, f.ci, f.co)
        /\ (/\ mem.status \in ActiveStatus
            /\ mem.ci = res[mem.pk].ci
            /\ mem.co = res[mem.pk].co)
                => /\ Save(World, mem, today).err # "conflict"
                   /\ Save(World, mem, today).ok

\* The held instance is an active stored reservation that was saved again:
\* the row is there, active, and the second save left its trace in the
\* ledger.
ActiveSavedAgain ==
    /\ mem.pk \in DOMAIN res
    /\ res[mem.pk].status \in ActiveStatus
    /\ mem.ci = res[mem.pk].ci
    /\ mem.co = res[mem.pk].co
    /\ Cardinality(IncomeOf(World, mem.pk)) = 2

\* Candidate bookings: one guest, Booked, for the first night, the second
\* night or both.
CandidateForms ==
    {f \in [customer : DOMAIN customers, room : DOMAIN rooms, ci : {1, 2}, co : {2, 3},
            guests : {1}, status : {"Booked"}] :
        f.ci < f.co /\ f.guests <= rooms[f.room].capacity}

Overdue(o) == o.status = "CheckedIn" /\ o.co < today

\* The saves a caller can make: a new instance, or the held one with
\* fields assigned.
Saveable == {NewObj(f) : f \in Forms} \cup
            (IF mem.pk # 0 THEN {Assigned(mem, f) : f \in Forms} ELSE {})

\* C32 as stated: the status auto-transition runs before any other logic,
\* so whatever the later checks answer, a CheckedIn instance past its
\* check-out date has become CheckedOut when save() returns or raises.
CheckoutBeforeChecks ==
    \A o \in Saveable : Overdue(o) => Save(World, o, today).o.status = "CheckedOut"

\* clean() on instance o answers c: the date order is checked first (and
\* then paid_amount is left as it was), then paid_amount is recomputed,
\* then the capacity, then the conflict with other active reservations.
CleanInOrder(o, c) ==
    IF o.ci >= o.co THEN c.err = "dates" /\ c.o.paid = o.paid
    ELSE /\ c.o.paid = (o.co - o.ci) * rooms[o.room].price
         /\ c.err = IF o.guests > rooms[o.room].capacity THEN "capacity"
                    ELSE IF OtherOverlaps(o.pk, o.room, o.ci, o.co) THEN "conflict"
                    ELSE "ok"

\* save() on instance o answers r: a refused save leaves the status of the
\* instance as it came, an accepted one has checked out the overdue
\* CheckedIn instance.
CheckoutAfterChecks(o, r) ==
    /\ ~r.ok => r.o.status = o.status
    /\ (r.ok /\ Overdue(o)) => r.o.status = "CheckedOut"

\* C32: on every create and update clean() runs date validity,
\* paid_amount recomputation, capacity and conflict detection in this
\* order and stops at the first failure, so a request violating several of
\* them reports the earliest; the status auto-transition runs after the
\* validation has passed, never on a refused save.
ChecksThenCheckout ==
    \A o \in Saveable :
        /\ CleanInOrder(o, ModelClean(World, o))
        /\ CheckoutAfterChecks(o, Save(World, o, today))

\* An update was refused for the capacity while a stored reservation is
\* CheckedIn past its check-out date.
OverdueUpdateRefused ==
    /\ last.op = "update"
    /\ last.err = "capacity"
    /\ \E i \in DOMAIN res : res[i].status = "CheckedIn" /\ res[i].co < today

\* A change form for a Booked reservation that names another customer and
\* another room, moves the check-out date to day 3 and sets a guest count
\* that the stored room takes.
MoveForms(i) ==
    {f \in [customer : DOMAIN customers, room : DOMAIN rooms, ci : {res[i].ci}, co : {3},
            guests : {1, 2}, status : {"Booked"}] :
        /\ f.customer # res[i].customer
        /\ f.room # res[i].room
        /\ f.guests <= rooms[res[i].room].capacity}

\* The change form f on Booked reservation i is accepted, the stored dates
\* and guest count are the submitted ones, the stored room and customer are the old ones.
DatesMovedOnly(i, f, r) ==
    /\ r.ok
    /\ r.w.res[i].co = f.co
    /\ r.w.res[i].guests = f.guests
    /\ r.w.res[i].room = res[i].room
    /\ r.w.res[i].customer = res[i].customer

\* The dates and the guest count of every Booked reservation can be edited.
BookedEditable ==
    \A i \in DOMAIN res :
        res[i].status = "Booked"
            => \A f \in MoveForms(i) :
                DatesMovedOnly(i, f, AdminChangeResult(World, i, f, today))

CancelRefusedWhole(sel, r) ==
    (\E i \in sel : res[i].status = "CheckedIn")
        => /\ ~r.ok
           /\ r.w = World

\* C34: batch cancel pre-flight. If the selection holds at least one
\* CheckedIn reservation the guard is evaluated before any mutation and no
\* reservation of the batch is changed: no status change, no expense
\* entry, no room-status change, also for the Booked reservations of the
\* selection.
CancelPreflight ==
    \A sel \in (SUBSET DOMAIN res) \ {{}} :
        CancelRefusedWhole(sel, CancelReservations(World, sel, today))

\* A batch cancel was refused while a Booked and a CheckedIn reservation
\* are stored: the Booked one is still Booked, its room still Booked, and
\* no expense entry was written for it.
MixedCancelRefused ==
    /\ last.op = "cancel"
    /\ last.err = "checkedin_selected"
    /\ \E i, j \in DOMAIN res :
        /\ res[i].status = "Booked"
        /\ res[j].status = "CheckedIn"
        /\ rooms[res[i].room].status = "Booked"
        /\ \A k \in 1..Len(expense) : expense[k].rid # i

\* The outcome r of a batch transition from status `from` on selection sel:
\* it succeeds; a selected reservation in status `from` gets the row that
\* the same action gives it when it is selected alone (one), away from
\* `from`; every other reservation, selected or not, keeps its row.
OnlyEligibleTouched(sel, from, r, one) ==
    /\ r.ok
    /\ DOMAIN r.w.res = DOMAIN res
    /\ \A i \in DOMAIN res :
        IF i \in sel /\ res[i].status = from
        THEN /\ r.w.res[i] = one[i]
             /\ r.w.res[i].status # from
        ELSE r.w.res[i] = res[i]

\* The rows that each reservation gets when the action is run on it alone.
AloneCheckin == [i \in DOMAIN res |-> MakeCheckin(World, {i}, today).w.res[i]]
AloneCheckout == [i \in DOMAIN res |-> MakeCheckout(World, {i}, today).w.res[i]]
AloneCancel == [i \in DOMAIN res |-> CancelReservations(World, {i}, today).w.res[i]]

\* C35: batch transitions touch only eligible reservations: batch check-in
\* changes only the selected Booked reservations, batch check-out only the
\* selected CheckedIn ones, batch cancel only the selected Booked ones;
\* every other reservation, selected or not, keeps its status, amounts and
\* flags, and each item's outcome is the one it has when selected alone.
BatchTouchesEligibleOnly ==
    \A sel \in (SUBSET DOMAIN res) \ {{}} :
        /\ OnlyEligibleTouched(sel, "Booked", MakeCheckin(World, sel, today), AloneCheckin)
        /\ OnlyEligibleTouched(sel, "CheckedIn", MakeCheckout(World, sel, today), AloneCheckout)
        /\ (\A i \in sel : res[i].status # "CheckedIn")
            => OnlyEligibleTouched(sel, "Booked",
                                   CancelReservations(World, sel, today), AloneCancel)

\* Two selections for batch check-in: two Booked reservations that both
\* become CheckedIn, and a Booked one next to a finished one that keeps
\* its row.
BatchOverMixedSelection ==
    \E i, j \in DOMAIN res :
        /\ i # j
        /\ res[i].status = "Booked"
        /\ res[j].status \in {"Booked", "Refunded"}
        /\ MakeCheckin(World, {i, j}, today).ok
        /\ MakeCheckin(World, {i, j}, today).w.res[i].status = "CheckedIn"
        /\ res[j].status = "Refunded"
            => MakeCheckin(World, {i, j}, today).w.res[j] = res[j]
        /\ res[j].status = "Booked"
            => MakeCheckin(World, {i, j}, today).w.res[j].status = "CheckedIn"

\* C36: room status is derived: in every reachable state, also after the
\* manual room edits that the room guard lets through, a room is Occupied
\* only if some reservation on it is CheckedIn and Booked only if some
\* reservation on it is Booked.
RoomStatusDerived ==
    \A r \in DOMAIN rooms :
        /\ rooms[r].status = "Occupied"
            => \E i \in DOMAIN res : res[i].room = r /\ res[i].status = "CheckedIn"
        /\ rooms[r].status = "Booked"
            => \E i \in DOMAIN res : res[i].room = r /\ res[i].status = "Booked"

\* C37: the refund annotation and the deleted marker are appended only to
\* the income entry created for the same reservation, also between
\* reservations whose ids share a decimal prefix and also when the own
\* income entry no longer exists: an income entry carries the refund mark
\* only if its reservation is Refunded or deleted, and the deleted mark
\* only if its reservation is deleted.
MarksOnOwnEntryOnly ==
    \A k \in 1..Len(income) : \A n \in 1..Len(income[k].notes) :
        /\ income[k].notes[n].tag = "refunded"
            => (income[k].rid \notin DOMAIN res \/ res[income[k].rid].status = "Refunded")
        /\ income[k].notes[n].tag = "deleted" => income[k].rid \notin DOMAIN res

\* C38: ledger balance of a cancellation: for every reservation that has
\* both an income entry and a refund expense entry, the expense amount
\* equals the income amount, whatever was done before the cancellation.
RefundEqualsIncome ==
    \A k \in 1..Len(income) : \A j \in 1..Len(expense) :
        income[k].rid = expense[j].rid => expense[j].amount = income[k].amount

\* C39: whenever a reservation with recorded income is removed from the
\* store, by deleting the reservation itself or by the cascade from deleting
\* its room or its customer, its income entry carries the deleted marker.
RemovedIncomeMarked ==
    \A k \in 1..Len(income) :
        income[k].rid \notin DOMAIN res
            => \E n \in 1..Len(income[k].notes) : income[k].notes[n] = DeletedNote

\* C40: no lost update on a reservation: a save made from a snapshot read
\* before a concurrent cancellation does not revert the stored status from
\* Refunded to another status and does not reset the stored refund_recorded
\* or income_recorded from true to false.
NoLostUpdate ==
    [][\A id \in DOMAIN res \cap DOMAIN res' :
          /\ res[id].status = "Refunded" => res'[id].status = "Refunded"
          /\ res[id].refRec => res'[id].refRec
          /\ res[id].incRec => res'[id].incRec]_vars

====
